---- MODULE Spec2Model ----
(***************************************************************************)
(* Model of the whAtIs.sh API (src/main.py): a FastAPI application with    *)
(* four routes that forward a command name to an LLM backend.              *)
(*                                                                         *)
(* Text that the program transforms (terms, prompts, backend text) is a    *)
(* sequence of one-character strings, so that appending " -v" and          *)
(* stripping whitespace are computed.  Fixed messages (exception details)  *)
(* are TLA+ strings.                                                       *)
(*                                                                         *)
(* Every request is one task.  A handler runs atomically up to its only    *)
(* suspension point (the await of client.post in call_llm) and again from  *)
(* the arrival of the backend's outcome to the HTTP response.              *)
(***************************************************************************)
EXTENDS Integers, Sequences, FiniteSets, TLC

VARIABLES backend, req, pc, endpoint, calls, outcome, resp

vars == <<backend, req, pc, endpoint, calls, outcome, resp>>

\* Number of requests in flight at once.
NumReq == 2

Req == 1..NumReq

-----------------------------------------------------------------------------
(* Text values *)

LS == <<"l", "s">>

HEALTH == <<"h", "e", "a", "l", "t", "h">>

\* A path of two segments, "a/b": it matches no route.
NESTED == <<"a", "/", "b">>

\* The suffix of lines 143, 250 and 300.
VERBOSE_SUFFIX == <<" ", "-", "v">>

\* What the backend generates, with whitespace around it.
RAW_TEXT == <<" ", "o", "k", "\n">>

Whitespace == {" ", "\n", "\t", "\r"}

RECURSIVE lstrip(_)
lstrip(s) ==
    IF s # <<>> /\ Head(s) \in Whitespace THEN lstrip(Tail(s)) ELSE s

RECURSIVE rstrip(_)
rstrip(s) ==
    IF s # <<>> /\ s[Len(s)] \in Whitespace
    THEN rstrip(SubSeq(s, 1, Len(s) - 1))
    ELSE s

\* str.strip()
strip(s) == rstrip(lstrip(s))

-----------------------------------------------------------------------------
(* Requests *)

\* A request body: no bytes, bytes that are not JSON, a JSON array, or a
\* JSON object with or without "cmd_or_func" and "verbose".
NoFields == [cmdTag |-> "missing", cmd |-> <<>>, verbose |-> "missing"]

EmptyBody == [kind |-> "empty"] @@ NoFields

GarbageBody == [kind |-> "garbage"] @@ NoFields

ArrayBody == [kind |-> "array"] @@ NoFields

\* JSON objects: without cmd_or_func, with a null cmd_or_func, with the
\* empty string, and with a term and each form of the verbose field.
ObjectBodies ==
    {[kind |-> "object", cmdTag |-> "missing", cmd |-> <<>>, verbose |-> "true"],
     [kind |-> "object", cmdTag |-> "null", cmd |-> <<>>, verbose |-> "missing"],
     [kind |-> "object", cmdTag |-> "str", cmd |-> <<>>, verbose |-> "missing"]}
    \cup {[kind |-> "object", cmdTag |-> "str", cmd |-> LS, verbose |-> vb] :
        vb \in {"missing", "true", "false"}}

Bodies == {EmptyBody, GarbageBody, ArrayBody} \cup ObjectBodies

\* A request that has not arrived.
NoRequest == [method |-> "none", seg |-> <<>>, v |-> "absent", body |-> EmptyBody]

\* The requests a client sends: the method, the path after the leading "/",
\* the query parameter v and the body.
Requests ==
    {[method |-> "GET", seg |-> LS, v |-> q, body |-> EmptyBody] :
        q \in {"absent", "true", "false"}}
    \cup {[method |-> "GET", seg |-> HEALTH, v |-> "absent", body |-> EmptyBody],
          [method |-> "GET", seg |-> NESTED, v |-> "absent", body |-> EmptyBody],
          [method |-> "POST", seg |-> LS, v |-> "absent", body |-> EmptyBody]}
    \cup {[method |-> m, seg |-> <<>>, v |-> "absent", body |-> b] :
        m \in {"GET", "POST"}, b \in Bodies}

-----------------------------------------------------------------------------
(* Routing *)

\* The route table had "/{command}" been registered before "/health".
RoutesSwapped ==
    << [method |-> "GET", pattern |-> "root", endpoint |-> "whatis_with_body"],
       [method |-> "GET", pattern |-> "param", endpoint |-> "whatis_headless"],
       [method |-> "GET", pattern |-> "health", endpoint |-> "health_check"],
       [method |-> "POST", pattern |-> "root", endpoint |-> "whatis_post"] >>

\* The route table in registration order (the decorators of main.py).
Routes ==
    << [method |-> "GET", pattern |-> "root", endpoint |-> "whatis_with_body"],
       [method |-> "GET", pattern |-> "health", endpoint |-> "health_check"],
       [method |-> "GET", pattern |-> "param", endpoint |-> "whatis_headless"],
       [method |-> "POST", pattern |-> "root", endpoint |-> "whatis_post"] >>

\* Does the path match the route's pattern?  "/{command}" takes one
\* non-empty segment without "/".
PathMatches(pattern, seg) ==
    CASE pattern = "root" -> seg = <<>>
      [] pattern = "health" -> seg = HEALTH
      [] pattern = "param" -> seg # <<>> /\ \A i \in 1..Len(seg) : seg[i] # "/"

FullMatches(q) ==
    {i \in 1..Len(Routes) :
        PathMatches(Routes[i].pattern, q.seg) /\ Routes[i].method = q.method}

PartialMatches(q) ==
    {i \in 1..Len(Routes) : PathMatches(Routes[i].pattern, q.seg)}

Min(S) == CHOOSE i \in S : \A j \in S : i <= j

\* The first route, in registration order, that matches path and method
\* handles the request; a path that matches with another method only is
\* answered 405, a path that matches nothing 404.
Route(q) ==
    IF FullMatches(q) # {} THEN Routes[Min(FullMatches(q))].endpoint
    ELSE IF PartialMatches(q) # {} THEN "405"
    ELSE "404"

-----------------------------------------------------------------------------
(* Request parsing *)

\* The requests that reach each handler.
HealthRequests == {q \in Requests : Route(q) = "health_check"}

WithBodyRequests == {q \in Requests : Route(q) = "whatis_with_body"}

HeadlessRequests == {q \in Requests : Route(q) = "whatis_headless"}

PostRequests == {q \in Requests : Route(q) = "whatis_post"}

NotFoundRequests == {q \in Requests : Route(q) = "404"}

NotAllowedRequests == {q \in Requests : Route(q) = "405"}


\* The body test left out: every body is taken as present.
BodyAlwaysPresent(body) == TRUE

\* "if body:" in whatis_with_body
BodyPresent(body) == body.kind # "empty"

\* json.loads(body) succeeds
JsonLoads(body) == body.kind \in {"array", "object"}

\* CommandRequest had cmd_or_func a default, as verbose has.
CommandRequestLax(body) == body.kind = "object" /\ body.cmdTag # "null"

\* CommandRequest(**data) succeeds: data is a mapping with a string
\* cmd_or_func; verbose defaults to False.
CommandRequest(body) == body.kind = "object" /\ body.cmdTag = "str"

\* FastAPI's conversion of the query parameter v, and the value of the
\* verbose field of a body (default False).
QueryFlag(v) == v = "true"

VerboseField(body) == body.verbose = "true"

\* The verbose marker appended without its leading space.
HeadlessPromptNoSpace(command, v) ==
    IF v THEN command \o <<"-", "v">> ELSE command

\* The prompt of whatis_headless (lines 248 to 250).
HeadlessPrompt(command, v) ==
    IF v THEN command \o VERBOSE_SUFFIX ELSE command

\* The prompt of whatis_with_body (lines 141 to 143).
WithBodyPrompt(cmd_or_func, verbose) ==
    IF verbose THEN cmd_or_func \o VERBOSE_SUFFIX ELSE cmd_or_func

\* The prompt of whatis_post (lines 298 to 300).
PostPrompt(cmd_or_func, verbose) ==
    IF verbose THEN cmd_or_func \o VERBOSE_SUFFIX ELSE cmd_or_func

-----------------------------------------------------------------------------
(* Backend client: call_llm *)

\* Configuration read at import (lines 9 and 10), with its defaults.
LLM_BASE_URL == "http://X"

LLM_MODEL == "whatis.sh"

\* The condition of the backend; the environment changes it at will.
BackendModes == {"up", "down", "erroring", "hanging"}

\* What one POST to the backend ends in: a transport failure (an
\* httpx.RequestError: connection refused, or the 60 s timeout), or an HTTP
\* reply with a status and a payload.  The payload is bytes that are not
\* JSON, a JSON object with a "response" string, or one without.
Outcomes(mode) ==
    CASE mode = "down" ->
           {[kind |-> "transport", cause |-> "ConnectError", status |-> 0, payload |-> "none"]}
      [] mode = "hanging" ->
           {[kind |-> "transport", cause |-> "ReadTimeout", status |-> 0, payload |-> "none"]}
      [] mode = "erroring" ->
           {[kind |-> "http", cause |-> "", status |-> 500, payload |-> "not_json"]}
      [] mode = "up" ->
           {[kind |-> "http", cause |-> "", status |-> 200, payload |-> pl] :
               pl \in {"not_json", "with_response", "without_response"}}

\* call_llm with one retry: the POST sent twice.
PostTwice(prompt) ==
    LET post == [url |-> LLM_BASE_URL \o "/api/generate", model |-> LLM_MODEL,
                 prompt |-> prompt, stream |-> FALSE]
    IN  <<post, post>>

\* The requests call_llm sends for one prompt: a single client.post.
CallLlmPosts(prompt) ==
    << [url |-> LLM_BASE_URL \o "/api/generate", model |-> LLM_MODEL,
        prompt |-> prompt, stream |-> FALSE] >>

\* How a function call ends: it returns text or raises an exception.
NoExc == [type |-> "none", status |-> 0, detail |-> ""]

Return(text) == [kind |-> "return", text |-> text, exc |-> NoExc]

\* A handler suspended in "await call_llm(prompt)".
Await(prompt) == [kind |-> "await", text |-> prompt, exc |-> NoExc]

Raise(type, status, detail) ==
    [kind |-> "raise", text |-> <<>>,
     exc |-> [type |-> type, status |-> status, detail |-> detail]]

\* Response.raise_for_status() raises unless the status is 2xx.
IsSuccess(status) == 200 <= status /\ status <= 299

\* llm_response.get("response", "")
GetResponse(payload) ==
    IF payload = "with_response" THEN RAW_TEXT ELSE <<>>

\* call_llm from the point where the awaited POST ends in outcome o.
CallLlm(o) ==
    IF o.kind = "transport"
    THEN Raise("HTTPException", 503, "LLM service unavailable: " \o o.cause)
    ELSE IF ~IsSuccess(o.status)
    THEN Raise("HTTPException", 502, "LLM service error: HTTPStatusError")
    ELSE IF o.payload = "not_json"
    THEN Raise("JSONDecodeError", 0, "Expecting value")
    ELSE Return(strip(GetResponse(o.payload)))

-----------------------------------------------------------------------------
(* Exceptions and responses *)

\* str(e)
StatusText(status) ==
    CASE status = 400 -> "400"
      [] status = 500 -> "500"
      [] status = 502 -> "502"
      [] status = 503 -> "503"
      [] OTHER -> "?"

Str(exc) ==
    IF exc.type = "HTTPException"
    THEN StatusText(exc.status) \o ": " \o exc.detail
    ELSE exc.detail

\* The except clauses of whatis_with_body (lines 175 to 178): they see
\* every exception raised inside the try block, those of call_llm included.
WithBodyExcept(res) ==
    IF res.kind # "raise" THEN res
    ELSE IF res.exc.type = "JSONDecodeError"
    THEN Raise("HTTPException", 400, "Invalid JSON in request body")
    ELSE Raise("HTTPException", 500, Str(res.exc))

\* An HTTP response: the status, the media type, and the body, which is
\* plain text or JSON (for an error, the JSON object holding this detail).
PlainText(text) ==
    [status |-> 200, media |-> "text/plain", text |-> text, json |-> ""]

ErrorResponse(status, detail) ==
    [status |-> status, media |-> "application/json", text |-> <<>>, json |-> detail]

\* What the framework answers for the way a handler ended: the returned
\* text, the status and detail of an HTTPException, 422 for a request that
\* fails validation, or 500 for any other exception.
Respond(res) ==
    IF res.kind = "return" THEN PlainText(res.text)
    ELSE IF res.exc.type \in {"HTTPException", "RequestValidationError"}
    THEN ErrorResponse(res.exc.status, res.exc.detail)
    ELSE [status |-> 500, media |-> "text/plain", text |-> <<>>,
          json |-> "Internal Server Error"]

\* The text returned for GET / without a body (lines 149 to 173), cut to
\* its heading.
USAGE_TEXT == <<"U", "s", "a", "g", "e", ":">>

\* The answer of health_check (line 210).
HealthResponse ==
    [status |-> 200, media |-> "application/json", text |-> <<>>,
     json |-> "{\"status\":\"healthy\",\"service\":\"whatis.sh\"}"]

-----------------------------------------------------------------------------
(* Handlers, up to their suspension point *)

\* whatis_with_body from its entry to the await or to its end.
WhatisWithBodyBegin(body) ==
    WithBodyExcept(
        IF ~BodyPresent(body) THEN Return(USAGE_TEXT)
        ELSE IF ~JsonLoads(body) THEN Raise("JSONDecodeError", 0, "Expecting value")
        ELSE IF body.kind # "object"
        THEN Raise("TypeError", 0, "argument after ** must be a mapping")
        ELSE IF ~CommandRequest(body)
        THEN Raise("ValidationError", 0, "1 validation error for CommandRequest")
        ELSE Await(WithBodyPrompt(body.cmd, VerboseField(body))))

\* whatis_headless from its entry to the await.
WhatisHeadlessBegin(command, v) == Await(HeadlessPrompt(command, QueryFlag(v)))

\* whatis_post: FastAPI decodes and validates the body into a
\* CommandRequest before the handler runs (line 273).
WhatisPostBegin(body) ==
    IF ~BodyPresent(body) \/ ~JsonLoads(body) \/ ~CommandRequest(body)
    THEN Raise("RequestValidationError", 422, "validation error")
    ELSE Await(PostPrompt(body.cmd, VerboseField(body)))

-----------------------------------------------------------------------------
(* State *)

TypeOK ==
    /\ backend \in BackendModes
    /\ \A r \in Req :
        /\ req[r] \in Requests \cup {NoRequest}
        /\ pc[r] \in {"new", "awaiting", "done"}
        /\ Len(calls[r]) \in 0..2
        /\ Len(outcome[r]) \in 0..2
        /\ Len(resp[r]) \in 0..2

Init ==
    /\ backend \in BackendModes
    /\ req = [r \in Req |-> NoRequest]
    /\ pc = [r \in Req |-> "new"]
    /\ endpoint = [r \in Req |-> "none"]
    /\ calls = [r \in Req |-> <<>>]
    /\ outcome = [r \in Req |-> <<>>]
    /\ resp = [r \in Req |-> <<>>]

\* Request q of task r is routed to handler h, which runs until it ends in
\* res: suspended in the backend call it has sent, or answered.
Begin(r, q, h, res) ==
    /\ pc[r] = "new"
    /\ req' = [req EXCEPT ![r] = q]
    /\ endpoint' = [endpoint EXCEPT ![r] = h]
    /\ IF res.kind = "await"
       THEN /\ calls' = [calls EXCEPT ![r] = @ \o CallLlmPosts(res.text)]
            /\ pc' = [pc EXCEPT ![r] = "awaiting"]
            /\ resp' = resp
       ELSE /\ resp' = [resp EXCEPT ![r] = Append(@, Respond(res))]
            /\ pc' = [pc EXCEPT ![r] = "done"]
            /\ calls' = calls
    /\ UNCHANGED <<backend, outcome>>

\* The backend call of task r, suspended in handler h, ends in outcome o
\* and the handler runs to its end res.
Resume(r, h, o, res) ==
    /\ pc[r] = "awaiting"
    /\ endpoint[r] = h
    /\ Len(outcome[r]) < Len(calls[r])
    /\ outcome' = [outcome EXCEPT ![r] = Append(@, o)]
    /\ resp' = [resp EXCEPT ![r] = Append(@, Respond(res))]
    /\ pc' = [pc EXCEPT ![r] = "done"]
    /\ UNCHANGED <<backend, req, endpoint, calls>>

HealthCheck(r) ==
    /\ pc[r] = "new"
    /\ \E q \in HealthRequests :
        /\ req' = [req EXCEPT ![r] = q]
        /\ endpoint' = [endpoint EXCEPT ![r] = "health_check"]
        /\ resp' = [resp EXCEPT ![r] = Append(@, HealthResponse)]
        /\ pc' = [pc EXCEPT ![r] = "done"]
        /\ UNCHANGED <<backend, calls, outcome>>

WhatisWithBody(r) ==
    /\ pc[r] = "new"
    /\ \E q \in WithBodyRequests :
        Begin(r, q, "whatis_with_body", WhatisWithBodyBegin(q.body))

WhatisWithBodyResume(r) ==
    /\ pc[r] = "awaiting"
    /\ \E o \in Outcomes(backend) :
        Resume(r, "whatis_with_body", o, WithBodyExcept(CallLlm(o)))

WhatisHeadless(r) ==
    /\ pc[r] = "new"
    /\ \E q \in HeadlessRequests :
        Begin(r, q, "whatis_headless", WhatisHeadlessBegin(q.seg, q.v))

WhatisHeadlessResume(r) ==
    /\ pc[r] = "awaiting"
    /\ \E o \in Outcomes(backend) :
        Resume(r, "whatis_headless", o, CallLlm(o))

WhatisPost(r) ==
    /\ pc[r] = "new"
    /\ \E q \in PostRequests :
        Begin(r, q, "whatis_post", WhatisPostBegin(q.body))

WhatisPostResume(r) ==
    /\ pc[r] = "awaiting"
    /\ \E o \in Outcomes(backend) :
        Resume(r, "whatis_post", o, CallLlm(o))

\* A path that no route matches, or matches with another method only.
NotFound(r) ==
    /\ pc[r] = "new"
    /\ \E q \in NotFoundRequests :
        Begin(r, q, "none", Raise("HTTPException", 404, "Not Found"))

MethodNotAllowed(r) ==
    /\ pc[r] = "new"
    /\ \E q \in NotAllowedRequests :
        Begin(r, q, "none", Raise("HTTPException", 405, "Method Not Allowed"))

\* The backend goes up or down, starts to fail or to hang.
BackendChange ==
    /\ backend' \in BackendModes \ {backend}
    /\ UNCHANGED <<req, pc, endpoint, calls, outcome, resp>>

Next ==
    \/ \E r \in Req : HealthCheck(r)
    \/ \E r \in Req : WhatisWithBody(r)
    \/ \E r \in Req : WhatisWithBodyResume(r)
    \/ \E r \in Req : WhatisHeadless(r)
    \/ \E r \in Req : WhatisHeadlessResume(r)
    \/ \E r \in Req : WhatisPost(r)
    \/ \E r \in Req : WhatisPostResume(r)
    \/ \E r \in Req : NotFound(r)
    \/ \E r \in Req : MethodNotAllowed(r)
    \/ BackendChange

Spec == Init /\ [][Next]_vars

-----------------------------------------------------------------------------
(* The claims *)

\* A request as the claims see it: is it a valid query, and what are its
\* term and its verbose flag.
IsBodyQuery(q) ==
    /\ q.seg = <<>>
    /\ q.body.kind = "object"
    /\ q.body.cmdTag = "str"

IsPathQuery(q) ==
    /\ q.method = "GET"
    /\ q.seg \notin {<<>>, HEALTH}
    /\ \A i \in 1..Len(q.seg) : q.seg[i] # "/"

ValidQuery(q) ==
    \/ IsPathQuery(q)
    \/ q.method \in {"GET", "POST"} /\ IsBodyQuery(q)

Term(q) == IF IsPathQuery(q) THEN q.seg ELSE q.body.cmd

Verbose(q) == IF IsPathQuery(q) THEN q.v = "true" ELSE q.body.verbose = "true"

Answered(r) == pc[r] = "done" /\ Len(resp[r]) >= 1

Replied(r) == Answered(r) /\ Len(outcome[r]) >= 1

\* C1: on each of the three query endpoints a transport failure of the
\* backend call is answered 503 with a non-empty message, and a non-2xx
\* backend status is answered 502.
C1_BackendFailureStatus ==
    \A r \in Req :
        (ValidQuery(req[r]) /\ Replied(r)) =>
            /\ outcome[r][1].kind = "transport" =>
                 (resp[r][1].status = 503 /\ resp[r][1].json # "")
            /\ (outcome[r][1].kind = "http"
                    /\ outcome[r][1].status \notin 200..299) =>
                 resp[r][1].status = 502

\* C2: GET / with a non-empty body that is not JSON, or is JSON without a
\* usable cmd_or_func, is answered 400 and the backend is never contacted.
C2_InvalidBodyIs400 ==
    \A r \in Req :
        (/\ req[r].method = "GET"
         /\ req[r].seg = <<>>
         /\ req[r].body.kind # "empty"
         /\ ~IsBodyQuery(req[r])
         /\ pc[r] # "new") =>
            /\ Answered(r)
            /\ resp[r][1].status = 400
            /\ calls[r] = <<>>

\* C3: a valid query whose backend reply is 2xx but cannot be handled is
\* answered 500, and 400 is answered only for an invalid request body.
C3_UnexpectedFailureIs500 ==
    \A r \in Req :
        /\ (/\ ValidQuery(req[r])
            /\ Replied(r)
            /\ outcome[r][1].kind = "http"
            /\ outcome[r][1].status \in 200..299
            /\ outcome[r][1].payload = "not_json") =>
               resp[r][1].status = 500
        /\ (Answered(r) /\ resp[r][1].status = 400) =>
               (req[r].body.kind # "empty" /\ ~IsBodyQuery(req[r]))

\* C4: the same term and verbose flag, submitted on any two of the three
\* query endpoints, send the same prompt and, for the same backend outcome
\* (a text, a transport failure or a non-2xx status), get the same status
\* and body.
C4_EndpointsEquivalent ==
    \A r1, r2 \in Req :
        (/\ ValidQuery(req[r1]) /\ ValidQuery(req[r2])
         /\ Term(req[r1]) = Term(req[r2])
         /\ Verbose(req[r1]) = Verbose(req[r2])
         /\ pc[r1] # "new" /\ pc[r2] # "new") =>
            /\ calls[r1] = calls[r2]
            /\ (/\ Replied(r1) /\ Replied(r2)
                /\ outcome[r1] = outcome[r2]
                /\ outcome[r1][1].payload # "not_json") =>
                 resp[r1] = resp[r2]

\* C5: every prompt sent to the backend is the request's term when verbose
\* is false and the term followed by " -v" when verbose is true.
C5_PromptIsTermOrTermV ==
    \A r \in Req :
        \A i \in 1..Len(calls[r]) :
            /\ ValidQuery(req[r])
            /\ calls[r][i].prompt =
                 IF Verbose(req[r])
                 THEN Term(req[r]) \o <<" ", "-", "v">>
                 ELSE Term(req[r])

C5_Witness ==
    \E r1, r2 \in Req :
        /\ IsPathQuery(req[r1]) /\ Verbose(req[r1])
        /\ calls[r1] # <<>>
        /\ calls[r1][1].prompt = <<"l", "s", " ", "-", "v">>
        /\ req[r2].method = "POST" /\ IsBodyQuery(req[r2]) /\ ~Verbose(req[r2])
        /\ calls[r2] # <<>>
        /\ calls[r2][1].prompt = <<"l", "s">>

\* C6: no backend call is made for a request whose term is empty.
C6_TermNonEmpty ==
    \A r \in Req : calls[r] # <<>> => Term(req[r]) # <<>>

\* C7: GET /health is answered 200 with the fixed payload whatever the
\* backend does, by health_check and not by the path lookup, and without a
\* backend call.
C7_HealthIsolated ==
    \A r \in Req :
        (req[r].method = "GET" /\ req[r].seg = HEALTH) =>
            /\ pc[r] = "done"
            /\ endpoint[r] = "health_check"
            /\ resp[r] = << [status |-> 200, media |-> "application/json",
                             text |-> <<>>,
                             json |-> "{\"status\":\"healthy\",\"service\":\"whatis.sh\"}"] >>
            /\ calls[r] = <<>>

C7_Witness ==
    \E r1, r2 \in Req :
        /\ backend = "down"
        /\ Replied(r1) /\ outcome[r1][1].kind = "transport"
        /\ req[r2].method = "GET" /\ req[r2].seg = HEALTH
        /\ Answered(r2) /\ resp[r2][1].status = 200

\* C8: POST / with a body that is malformed or lacks cmd_or_func is
\* answered 422 and the backend is never contacted.
C8_PostValidation ==
    \A r \in Req :
        (req[r].method = "POST" /\ req[r].seg = <<>> /\ ~IsBodyQuery(req[r])) =>
            /\ Answered(r)
            /\ resp[r][1].status = 422
            /\ calls[r] = <<>>

C8_Witness ==
    \E r \in Req :
        /\ req[r].method = "POST" /\ req[r].seg = <<>>
        /\ req[r].body.kind = "object" /\ req[r].body.cmdTag = "missing"
        /\ Answered(r) /\ resp[r][1].status = 422

\* C9: GET / with an empty body is answered 200 with the usage text
\* whatever the backend does, and without a backend call.
C9_UsageText ==
    \A r \in Req :
        (req[r].method = "GET" /\ req[r].seg = <<>> /\ req[r].body.kind = "empty") =>
            /\ pc[r] = "done"
            /\ resp[r] = << [status |-> 200, media |-> "text/plain",
                             text |-> <<"U", "s", "a", "g", "e", ":">>,
                             json |-> ""] >>
            /\ calls[r] = <<>>

C9_Witness ==
    \E r1, r2 \in Req :
        /\ backend = "hanging"
        /\ pc[r1] = "awaiting"
        /\ req[r2].method = "GET" /\ req[r2].seg = <<>> /\ req[r2].body.kind = "empty"
        /\ Answered(r2) /\ resp[r2][1].status = 200

\* C10: a valid query issues exactly one backend call, also after a
\* failure, is answered exactly once, and is answered only after the
\* outcome of its backend call, however the requests interleave.
C10_OneCallOneAnswer ==
    \A r \in Req :
        /\ pc[r] = "new" => (calls[r] = <<>> /\ outcome[r] = <<>> /\ resp[r] = <<>>)
        /\ (ValidQuery(req[r]) /\ pc[r] # "new") =>
            /\ Len(calls[r]) = 1
            /\ Len(resp[r]) <= Len(outcome[r])
            /\ pc[r] = "awaiting" => (outcome[r] = <<>> /\ resp[r] = <<>>)
            /\ pc[r] = "done" => (Len(outcome[r]) = 1 /\ Len(resp[r]) = 1)

C10_Witness ==
    \E r1, r2 \in Req :
        /\ r1 # r2
        /\ ValidQuery(req[r1]) /\ Replied(r1)
        /\ outcome[r1][1].kind = "transport"
        /\ Len(calls[r1]) = 1
        /\ ValidQuery(req[r2]) /\ pc[r2] = "awaiting"

====
